---- MODULE Spec2Model ----
(***************************************************************************)
(* Model of market-bot: a scheduled pipeline that fetches an index quote,  *)
(* composes a narration script, synthesizes speech, renders a video and    *)
(* uploads it.                                                             *)
(*                                                                         *)
(* Conventions                                                             *)
(*   - Python None is the record NoneV; a number n is Num(n).              *)
(*   - Prices are whole index points. A value printed with the format     *)
(*     "{x:.2f}" is given in hundredths: 22500 prints 2250000 hundredths    *)
(*     (22500.00) and a change of 0.54% prints 54.                          *)
(*   - A call that can raise yields Return(v) or Raise(e).                 *)
(*   - A text is a sequence of tokens; Lit(s) is a literal piece of text.  *)
(***************************************************************************)
EXTENDS Integers, Sequences, FiniteSets, TLC

VARIABLES
    arg,        \* the argument (and environment) of the function under check
    ret,        \* what the function returned
    fpc,        \* "ready" before the call, "returned" after it
    tokenFile,  \* the content of token.pickle
    ncalls,     \* invocations of upload_video so far
    pc,         \* where main is: a clock read, a stage of the report, its end
    clock,      \* the wall clock in IST, as the last read saw it
    reads,      \* the clock values main has read, in order
    started,    \* the reports main has started, in order
    calls,      \* the collaborators called so far, in order
    nifty,      \* run_*: the quote
    script,     \* run_*: the script text
    audio,      \* run_*: what safe_audio did
    chart,      \* run_*: the chart path
    video,      \* run_*: the arguments, the result and the clips of create_video
    uploaded    \* run_*: what upload_video returned

fnvars == <<arg, ret, fpc>>
authvars == <<tokenFile, ncalls>>
locals == <<nifty, script, audio, chart, video, uploaded>>
pipevars == <<pc, clock, reads, started, calls, nifty, script, audio, chart, video, uploaded>>
vars == <<arg, ret, fpc, tokenFile, ncalls, pc, clock, reads, started, calls,
          nifty, script, audio, chart, video, uploaded>>

(***************************************************************************)
(* Bounds of the model.                                                    *)
(***************************************************************************)
MaxRows == 3        \* rows of daily history the provider may return
MaxContent == 3     \* tokens in a response of the generative service
MaxUploads == 2     \* successive invocations of upload_video

(***************************************************************************)
(* Python values.                                                          *)
(***************************************************************************)
NoneV == [k |-> "none"]
Num(v) == [k |-> "num", v |-> v]
Str(s) == [k |-> "str", s |-> s]
IsNum(x) == x.k = "num"

\* Truth value of a Python value: None, 0 and "" are falsy.
Obj(id) == [k |-> "object", id |-> id]

\* Truth value of a Python value: None, 0 and "" are falsy, an object is
\* truthy.
Truthy(x) ==
    IF x.k = "num" THEN x.v # 0
    ELSE IF x.k = "str" THEN x.s # ""
    ELSE x.k # "none"

Return(v) == [raised |-> FALSE, value |-> v]
Raise(e) == [raised |-> TRUE, exc |-> e]

\* An error text is a sequence of string pieces; it is non-empty when some
\* piece is.
NonEmptyMsg(m) == \E i \in 1..Len(m) : m[i] # ""

\* A file path: os.path.join(dir, name).
Path(dir, name) == [k |-> "path", dir |-> dir, name |-> name]

\* The token file: missing, unreadable by pickle.load, or holding a
\* credential.
TokenMissing == [k |-> "missing"]
TokenCorrupt == [k |-> "corrupt"]
TokenCred(c) == [k |-> "cred", cred |-> c]

\* The variables of the uploader, in the specifications that do not run it.
AuthIdle == tokenFile = TokenMissing /\ ncalls = 0

\* The variables of main and of the report runners before main starts, and
\* in the specifications that do not run main.
NoLocals ==
    /\ nifty = NoneV
    /\ script = <<>>
    /\ audio = NoneV
    /\ chart = NoneV
    /\ video = NoneV
    /\ uploaded = NoneV

PipeIdle ==
    /\ pc = "idle"
    /\ clock = [wd |-> 0, hour |-> 0]
    /\ reads = <<>>
    /\ started = <<>>
    /\ calls = <<>>
    /\ NoLocals

(***************************************************************************)
(* data_fetcher.py                                                         *)
(***************************************************************************)
Tickers == {"^NSEI", "^NSEBANK"}

\* Close prices (index points) the provider may report.
Prices == {0, 22380, 22500}

\* The Close cell of a history row: the column is missing from the row, the
\* cell is None, the cell holds something float() rejects, or a number.
NoCol == [k |-> "nocol"]
BadCell == [k |-> "bad"]
CloseCells == {NoCol, NoneV, BadCell} \cup {Num(p) : p \in Prices}

RECURSIVE SeqsUpTo(_, _)
SeqsUpTo(S, n) ==
    IF n = 0 THEN {<<>>}
    ELSE LET shorter == SeqsUpTo(S, n - 1)
         IN shorter \cup {Append(s, x) : s \in {t \in shorter : Len(t) = n - 1}, x \in S}

\* What t.history(...) hands back: None or a frame of rows.
NoHist == [k |-> "none"]
Frame(rows) == [k |-> "frame", rows |-> rows]
Hists == {NoHist} \cup {Frame(r) : r \in SeqsUpTo(CloseCells, MaxRows)}

\* The provider: the call itself may raise (network error) with a message.
ProviderFaults == {"ok", "raises", "raises_blank"}

\* str(e) of the exception the provider raised.
FaultText(fault) == IF fault = "raises" THEN "network error" ELSE ""

\* float(row["Close"]) if "Close" in row and not row["Close"] is None else None
CloseOf(cell) ==
    IF cell = NoCol \/ cell = NoneV THEN Return(NoneV)
    ELSE IF cell = BadCell THEN Raise("could not convert to float")
    ELSE Return(cell)

ErrorQuote(ticker, msg) ==
    [symbol |-> Str(ticker), close |-> NoneV, prev_close |-> NoneV, error |-> msg]

\* Mutant of PrevRow: the first row of the history instead of the
\* second-to-last.
PrevRowFirst(rows) == rows[1]

\* hist.iloc[-2] if len(hist) >= 2 else last
PrevRow(rows) ==
    IF Len(rows) >= 2 THEN rows[Len(rows) - 1] ELSE rows[Len(rows)]

\* The body of the try block of fetch_index_daily.
fetch_try(ticker, fault, hist) ==
    IF fault # "ok" THEN Raise(FaultText(fault))
    ELSE IF hist = NoHist \/ Len(hist.rows) = 0
    THEN Return(ErrorQuote(ticker, <<"No historical data returned">>))
    ELSE LET n == Len(hist.rows)
             last == hist.rows[n]
             prev == PrevRow(hist.rows)
             c == CloseOf(last)
             p == CloseOf(prev)
         IN IF c.raised THEN c
            ELSE IF p.raised THEN p
            ELSE Return([symbol |-> Str(ticker), close |-> c.value, prev_close |-> p.value])

\* Mutant of fetch_index_daily: no except clause.
fetch_index_daily_unguarded(ticker, fault, hist) == fetch_try(ticker, fault, hist)

fetch_index_daily(ticker, fault, hist) ==
    LET r == fetch_try(ticker, fault, hist)
    IN IF r.raised
       THEN Return(ErrorQuote(ticker, <<"Exception fetching data: ", r.exc>>))
       ELSE r

(***************************************************************************)
(* SpecFetch: fetch_index_daily applied to every bounded provider answer.  *)
(***************************************************************************)
InitFetch ==
    /\ arg \in [ticker : Tickers, fault : ProviderFaults, hist : Hists]
    /\ ret = Return(NoneV)
    /\ fpc = "ready"
    /\ AuthIdle
    /\ PipeIdle

CallFetch ==
    /\ fpc = "ready"
    /\ ret' = fetch_index_daily(arg.ticker, arg.fault, arg.hist)
    /\ fpc' = "returned"
    /\ UNCHANGED <<arg, authvars, pipevars>>

NextFetch == CallFetch

SpecFetch == InitFetch /\ [][NextFetch]_vars

(***************************************************************************)
(* summarizer.py                                                           *)
(***************************************************************************)
Lit(s) == [tok |-> "lit", s |-> s]

\* SEBI_DISCLAIMER is the concatenation of three string literals.
SEBI_DISCLAIMER ==
    << Lit("This content is for educational purposes only. "),
       Lit("Markets are subject to risk. Please consult your financial advisor "),
       Lit("before taking any investment decisions.") >>

\* d[key]: KeyError when the key is missing.
Subscript(d, key) ==
    IF key \in DOMAIN d THEN Return(d[key]) ELSE Raise("KeyError")

\* d.get(key, default)
Get(d, key, default) == IF key \in DOMAIN d THEN d[key] ELSE default

\* A float is computed as IEEE 754 binary64 computes it. A magnitude is a
\* sequence of binary digits, most significant first and without leading
\* zeros, with the last frac of them after the binary point. The digits are
\* worked on eight at a time.
MANT == 53

Zeros(w) == [i \in 1..w |-> 0]

\* The w binary digits of n < 2^w, w <= 31.
ToBits(n, w) == [i \in 1..w |-> (n \div 2^(w - i)) % 2]

\* The number of eight binary digits.
Byte(b) ==
    128 * b[1] + 64 * b[2] + 32 * b[3] + 16 * b[4]
        + 8 * b[5] + 4 * b[6] + 2 * b[7] + b[8]

StripZeros(bits) ==
    IF \A i \in 1..Len(bits) : bits[i] = 0 THEN <<>>
    ELSE LET j == CHOOSE i \in 1..Len(bits) :
                      bits[i] = 1 /\ \A k \in 1..(i - 1) : bits[k] = 0
         IN SubSeq(bits, j, Len(bits))

\* bits with zeros before it up to a multiple of eight digits.
PadLeft(bits) == Zeros((8 - (Len(bits) % 8)) % 8) \o bits

\* The binary digits of a natural number below 2^31.
IntBits(n) == StripZeros(ToBits(n, 31))

\* The natural number, below 2^31, of a sequence of binary digits.
BitsInt(bits) ==
    LET b == Zeros(32 - Len(bits)) \o bits
    IN 16777216 * Byte(SubSeq(b, 1, 8)) + 65536 * Byte(SubSeq(b, 9, 16))
           + 256 * Byte(SubSeq(b, 17, 24)) + Byte(SubSeq(b, 25, 32))

\* bits + 1
Inc(bits) ==
    IF \A i \in 1..Len(bits) : bits[i] = 1
    THEN <<1>> \o Zeros(Len(bits))
    ELSE LET j == CHOOSE i \in 1..Len(bits) :
                      bits[i] = 0 /\ \A k \in (i + 1)..Len(bits) : bits[k] = 1
         IN SubSeq(bits, 1, j - 1) \o <<1>> \o Zeros(Len(bits) - j)

\* bits * k + carry for a small k; bits has a multiple of eight digits.
RECURSIVE MulCarry(_, _, _)
MulCarry(bits, k, carry) ==
    IF bits = <<>> THEN IntBits(carry)
    ELSE LET v == Byte(SubSeq(bits, Len(bits) - 7, Len(bits))) * k + carry
         IN MulCarry(SubSeq(bits, 1, Len(bits) - 8), k, v \div 256)
                \o ToBits(v % 256, 8)

\* bits * k
Mul(bits, k) == StripZeros(MulCarry(PadLeft(bits), k, 0))

\* The binary expansion of (the number st.bits stands for) + st.rem / p /
\* 2^st.frac, continued to more than MANT significant digits or until it
\* ends; p < 2^23.
RECURSIVE Expand(_, _)
Expand(st, p) ==
    IF Len(StripZeros(st.bits)) >= MANT + 1 \/ st.rem = 0
    THEN [bits |-> StripZeros(st.bits), frac |-> st.frac, rem |-> st.rem]
    ELSE Expand([bits |-> st.bits \o ToBits((256 * st.rem) \div p, 8),
                 frac |-> st.frac + 8,
                 rem  |-> (256 * st.rem) % p], p)

\* Rounding to MANT significant digits, to nearest and a tie to even; sticky
\* tells that digits beyond those of bits are not all zero.
RoundFloat(bits, frac, sticky) ==
    IF Len(bits) <= MANT THEN [bits |-> bits, frac |-> frac]
    ELSE LET keep == SubSeq(bits, 1, MANT)
             rest == SubSeq(bits, MANT + 1, Len(bits))
             more == sticky \/ \E i \in 2..Len(rest) : rest[i] = 1
             up   == rest[1] = 1 /\ (more \/ keep[MANT] = 1)
         IN [bits |-> IF up THEN Inc(keep) ELSE keep,
             frac |-> frac - Len(rest)]

\* The float a / p, for integers a >= 0 and p > 0.
FloatDiv(a, p) ==
    LET st == Expand([bits |-> IntBits(a \div p), frac |-> 0, rem |-> a % p], p)
    IN RoundFloat(st.bits, st.frac, st.rem # 0)

\* The float x * 100.
FloatMul100(x) == RoundFloat(Mul(x.bits, 100), x.frac, FALSE)

\* "{x:.2f}" of a float magnitude, in hundredths: the exact value of x is
\* rounded to two decimals, a tie going to the even digit.
FloatFormat2f(x) ==
    LET y    == Mul(x.bits, 100)
        n    == Len(y) - x.frac
        ip   == IF n > 0 THEN BitsInt(SubSeq(y, 1, n)) ELSE 0
        half == x.frac >= 1 /\ n >= 0 /\ y[n + 1] = 1
        more == \E i \in (n + 2)..Len(y) : i >= 1 /\ y[i] = 1
    IN IF half /\ (more \/ ip % 2 = 1) THEN ip + 1 ELSE ip

\* "{pct:.2f}" of pct = ((close - prev) / prev) * 100 for whole numbers
\* close and prev # 0 with |prev| < 2^23 and a result below 2^31, in
\* hundredths of a percent; the sign of a zero is not carried.
Pct2f(close, prev) ==
    LET a   == IF close >= prev THEN close - prev ELSE prev - close
        p   == IF prev > 0 THEN prev ELSE -prev
        neg == (close < prev) # (prev < 0)
        h   == FloatFormat2f(FloatMul100(FloatDiv(a, p)))
    IN IF neg THEN -h ELSE h

\* Mutant of PctChange: the division is not guarded by "if prev".
PctChangeUnguarded(close, prev) ==
    IF ~IsNum(close) \/ ~IsNum(prev) THEN Raise("TypeError")
    ELSE IF prev.v = 0 THEN Raise("ZeroDivisionError")
    ELSE Return(Pct2f(close.v, prev.v))

\* pct = ((close - prev) / prev) * 100 if prev else 0, in hundredths of a
\* percent as "{pct:.2f}" prints it. TypeError when close is None and prev
\* is a non-zero number.
PctChange(close, prev) ==
    IF ~Truthy(prev) THEN Return(0)
    ELSE IF ~IsNum(close) THEN Raise("TypeError")
    ELSE Return(Pct2f(close.v, prev.v))

\* "{x:.2f}": TypeError when x is None.
Format2f(x) == IF IsNum(x) THEN Return(x.v * 100) ELSE Raise("TypeError")

MixedSummary == Lit("Index data was mixed with limited clarity.")

\* The body of the try block of _idx_summary. The sentence
\* "<symbol> closed at <close>, up <pct>%. Day range was <low>-<high>."
\* is one token that carries the numbers it prints.
idx_summary_try(d) ==
    LET close == Subscript(d, "close")
        prev == Subscript(d, "prev_close")
        high == Get(d, "high", NoneV)
        low == Get(d, "low", NoneV)
    IN IF close.raised THEN close
       ELSE IF prev.raised THEN prev
       ELSE LET pct == PctChange(close.value, prev.value)
                fc == Format2f(close.value)
                fl == Format2f(low)
                fh == Format2f(high)
            IN IF pct.raised THEN pct
               ELSE IF fc.raised THEN fc
               ELSE IF fl.raised THEN fl
               ELSE IF fh.raised THEN fh
               ELSE Return([tok |-> "idx",
                            symbol |-> Get(d, "symbol", Str("Index")),
                            close |-> fc.value, pct |-> pct.value,
                            low |-> fl.value, high |-> fh.value])

idx_summary(d) ==
    LET r == idx_summary_try(d)
    IN IF r.raised THEN Return(MixedSummary) ELSE r

\* ", ".join(items) if items else "data not available"; items is None or
\* a sequence of strings.
RECURSIVE JoinFrom(_, _)
JoinFrom(items, i) ==
    IF i > Len(items) THEN <<>>
    ELSE IF i = Len(items) THEN <<Lit(items[i])>>
    ELSE <<Lit(items[i]), Lit(", ")>> \o JoinFrom(items, i + 1)

NoItems == [k |-> "none"]
Items(xs) == [k |-> "list", xs |-> xs]

safe_join(items) ==
    IF items = NoItems \/ Len(items.xs) = 0
    THEN <<Lit("data not available")>>
    ELSE JoinFrom(items.xs, 1)

fallback_premarket(quote) ==
    << Lit("Indian markets are set to open today amid mixed global cues. "),
       idx_summary(quote).value, Lit(" "),
       Lit("Derivatives positioning suggests a cautious start. "),
       Lit("Traders should watch global markets, crude oil, and key news events. ") >>
    \o SEBI_DISCLAIMER

fallback_postmarket(quote, sectors) ==
    << Lit("Indian markets ended the session on a mixed note. "),
       idx_summary(quote).value, Lit(" "),
       Lit("Sectoral action was seen in ") >>
    \o safe_join(Get(sectors, "gainers", NoItems))
    \o << Lit(", "), Lit("while pressure was visible in ") >>
    \o safe_join(Get(sectors, "losers", NoItems))
    \o << Lit(". ") >>
    \o SEBI_DISCLAIMER

fallback_weekly ==
    << Lit("Indian equity markets concluded the week with selective participation. "),
       Lit("Index trends remained range-bound as global and domestic factors influenced sentiment. "),
       Lit("Sector rotation and volatility trends will be key to watch next week. ") >>
    \o SEBI_DISCLAIMER

\* A response text of the generative service is made of these pieces.
Space == Lit(" ")
ContentTokens ==
    {Space, Lit("Markets were flat.")}
        \cup {SEBI_DISCLAIMER[i] : i \in 1..Len(SEBI_DISCLAIMER)}

IsSpace(tok) == tok = Space

\* The pieces of text of this module that end in whitespace, each with what
\* is left of it when the whitespace is removed; no piece other than Space
\* starts with whitespace.
TrailingSpace ==
    {"This content is for educational purposes only. ",
     "Markets are subject to risk. Please consult your financial advisor ",
     "Indian markets are set to open today amid mixed global cues. ",
     "Derivatives positioning suggests a cautious start. ",
     "Traders should watch global markets, crude oil, and key news events. ",
     "Indian markets ended the session on a mixed note. ",
     "Sectoral action was seen in ",
     "while pressure was visible in ",
     "Indian equity markets concluded the week with selective participation. ",
     "Index trends remained range-bound as global and domestic factors influenced sentiment. ",
     "Sector rotation and volatility trends will be key to watch next week. ",
     ", ", ". "}

Chomp(s) ==
    CASE s = "This content is for educational purposes only. " ->
             "This content is for educational purposes only."
      [] s = "Markets are subject to risk. Please consult your financial advisor " ->
             "Markets are subject to risk. Please consult your financial advisor"
      [] s = "Indian markets are set to open today amid mixed global cues. " ->
             "Indian markets are set to open today amid mixed global cues."
      [] s = "Derivatives positioning suggests a cautious start. " ->
             "Derivatives positioning suggests a cautious start."
      [] s = "Traders should watch global markets, crude oil, and key news events. " ->
             "Traders should watch global markets, crude oil, and key news events."
      [] s = "Indian markets ended the session on a mixed note. " ->
             "Indian markets ended the session on a mixed note."
      [] s = "Sectoral action was seen in " -> "Sectoral action was seen in"
      [] s = "while pressure was visible in " -> "while pressure was visible in"
      [] s = "Indian equity markets concluded the week with selective participation. " ->
             "Indian equity markets concluded the week with selective participation."
      [] s = "Index trends remained range-bound as global and domestic factors influenced sentiment. " ->
             "Index trends remained range-bound as global and domestic factors influenced sentiment."
      [] s = "Sector rotation and volatility trends will be key to watch next week. " ->
             "Sector rotation and volatility trends will be key to watch next week."
      [] s = ", " -> ","
      [] s = ". " -> "."
      [] OTHER -> s

EndsInSpace(tok) == tok.tok = "lit" /\ tok.s \in TrailingSpace

\* str.strip(): leading and trailing whitespace removed, character by
\* character: whole pieces of whitespace go, and the piece that then ends
\* the text loses the whitespace it ends in.
RECURSIVE lstrip(_)
lstrip(t) ==
    IF Len(t) > 0 /\ IsSpace(Head(t)) THEN lstrip(Tail(t)) ELSE t

RECURSIVE rstrip(_)
rstrip(t) ==
    IF Len(t) = 0 THEN t
    ELSE IF IsSpace(t[Len(t)]) THEN rstrip(SubSeq(t, 1, Len(t) - 1))
    ELSE IF EndsInSpace(t[Len(t)])
    THEN SubSeq(t, 1, Len(t) - 1) \o <<Lit(Chomp(t[Len(t)].s))>>
    ELSE t

strip(t) == rstrip(lstrip(t))

\* What client.chat.completions.create(...) does: it raises, or it returns a
\* response whose message content is None or a text.
NoText == [k |-> "none"]
Text(t) == [k |-> "text", toks |-> t]
GenRaises == [k |-> "raises"]
GenContent(c) == [k |-> "content", content |-> c]
GenOutcomes ==
    {GenRaises, GenContent(NoText)}
        \cup {GenContent(Text(t)) : t \in SeqsUpTo(ContentTokens, MaxContent)}

\* The body of the try block of the three create_*_script functions:
\* r.choices[0].message.content.strip(); None has no strip.
chat_completion(gen) ==
    IF gen.k = "raises" THEN Raise("APIError")
    ELSE IF gen.content = NoText THEN Raise("AttributeError")
    ELSE Return(strip(gen.content.toks))

create_premarket_script(quote, client, gen) ==
    IF ~client THEN fallback_premarket(quote)
    ELSE LET r == chat_completion(gen)
         IN IF r.raised THEN fallback_premarket(quote) ELSE r.value

create_postmarket_script(quote, sectors, client, gen) ==
    IF ~client THEN fallback_postmarket(quote, sectors)
    ELSE LET r == chat_completion(gen)
         IN IF r.raised THEN fallback_postmarket(quote, sectors) ELSE r.value

create_weekly_script(client, gen) ==
    IF ~client THEN fallback_weekly
    ELSE LET r == chat_completion(gen)
         IN IF r.raised THEN fallback_weekly ELSE r.value

\* The sector mappings of run_postmarket and run_weekly, and an empty one.
PostmarketSectors ==
    [gainers |-> Items(<<"IT", "Pharma">>), losers |-> Items(<<"FMCG", "Metal">>)]
WeeklySectors ==
    [leaders |-> Items(<<"IT", "Banking">>), laggards |-> Items(<<"Metal">>)]
SectorChoices ==
    {PostmarketSectors, WeeklySectors, [gainers |-> Items(<<>>), losers |-> NoItems]}

(***************************************************************************)
(* SpecIdx: _idx_summary applied to quote mappings with any of the fields  *)
(* missing, None, zero or a price.                                         *)
(***************************************************************************)
QuoteFields == {"symbol", "close", "prev_close", "high", "low"}

FieldValues(f) ==
    IF f = "symbol" THEN {Str("NIFTY 50")}
    ELSE IF f = "high" THEN {NoneV, Num(22620)}
    ELSE IF f = "low" THEN {NoneV, Num(22310)}
    ELSE {NoneV} \cup {Num(p) : p \in Prices}

AllFieldValues == UNION {FieldValues(f) : f \in QuoteFields}

QuoteMappings ==
    UNION { {d \in [S -> AllFieldValues] : \A f \in S : d[f] \in FieldValues(f)}
            : S \in SUBSET QuoteFields }

InitIdx ==
    /\ arg \in QuoteMappings
    /\ ret = Return(NoneV)
    /\ fpc = "ready"
    /\ AuthIdle
    /\ PipeIdle

CallIdx ==
    /\ fpc = "ready"
    /\ ret' = idx_summary(arg)
    /\ fpc' = "returned"
    /\ UNCHANGED <<arg, authvars, pipevars>>

NextIdx == CallIdx

SpecIdx == InitIdx /\ [][NextIdx]_vars

(***************************************************************************)
(* SpecScript: the three script composers applied to the quotes that       *)
(* fetch_index_daily produces for ^NSEI and to the hand-written quote of   *)
(* the module's standalone test, under every behaviour of the generative   *)
(* service.                                                                *)
(***************************************************************************)
FetchedQuotes ==
    {fetch_index_daily("^NSEI", f, h).value : f \in ProviderFaults, h \in Hists}

TestQuote ==
    [symbol |-> Str("NIFTY 50"), close |-> Num(22500), prev_close |-> Num(22380),
     high |-> Num(22620), low |-> Num(22310)]

ScriptQuotes == FetchedQuotes \cup {TestQuote}

ScriptArgs ==
    [kind : {"premarket", "weekly"}, nifty : ScriptQuotes,
     sectors : {PostmarketSectors}, client : BOOLEAN, gen : GenOutcomes]
    \cup
    [kind : {"postmarket"}, nifty : ScriptQuotes,
     sectors : SectorChoices, client : BOOLEAN, gen : GenOutcomes]

create_script(a) ==
    IF a.kind = "premarket" THEN create_premarket_script(a.nifty, a.client, a.gen)
    ELSE IF a.kind = "postmarket"
    THEN create_postmarket_script(a.nifty, a.sectors, a.client, a.gen)
    ELSE create_weekly_script(a.client, a.gen)

InitScript ==
    /\ arg \in ScriptArgs
    /\ ret = <<>>
    /\ fpc = "ready"
    /\ AuthIdle
    /\ PipeIdle

CallScript ==
    /\ fpc = "ready"
    /\ ret' = create_script(arg)
    /\ fpc' = "returned"
    /\ UNCHANGED <<arg, authvars, pipevars>>

NextScript == CallScript

SpecScript == InitScript /\ [][NextScript]_vars

(***************************************************************************)
(* tts_adapter.py                                                          *)
(***************************************************************************)
\* What get_env returns for a credential variable: None, "" or a value.
EnvValues == {NoneV, Str(""), Str("set")}

\* What goes wrong in a call of text_to_speech with credentials present:
\*   client_raises   boto3.client(...) raises (it is outside the try block)
\*   synth_boto      synthesize_speech raises BotoCoreError
\*   synth_client    synthesize_speech raises ClientError
\*   no_stream       the response has no AudioStream
\*   file_oserror    os.makedirs or open raises OSError: no file is created
\*   stream_boto     audio_stream.read raises a BotoCoreError after open
\*                   created the file
\*   write_oserror   f.write, or the flush at the end of the with block,
\*                   raises OSError after open created the file
TtsFaults ==
    {"none", "client_raises", "synth_boto", "synth_client", "no_stream",
     "file_oserror", "stream_boto", "write_oserror"}

OutputFiles == {"output.mp3", "premarket.mp3", "postmarket.mp3", "weekly.mp3"}

TtsEnvs ==
    [aws_key : EnvValues, aws_secret : EnvValues, aws_region : EnvValues,
     fault : TtsFaults]

\* The outcome of a call: what it returned or raised, how many provider
\* clients it created, how many requests it sent to the provider, and whether
\* the audio file, complete or not, is on disk after the call.
TtsOutcome(r, clients, requests, wrote) ==
    [ret |-> r, clients |-> clients, requests |-> requests, wrote |-> wrote]

\* The body of the try block of text_to_speech.
tts_try(env, output_file) ==
    IF env.fault = "synth_boto" THEN TtsOutcome(Raise("BotoCoreError"), 1, 1, FALSE)
    ELSE IF env.fault = "synth_client" THEN TtsOutcome(Raise("ClientError"), 1, 1, FALSE)
    ELSE IF env.fault = "no_stream" THEN TtsOutcome(Return(NoneV), 1, 1, FALSE)
    ELSE IF env.fault = "file_oserror" THEN TtsOutcome(Raise("OSError"), 1, 1, FALSE)
    ELSE IF env.fault = "stream_boto" THEN TtsOutcome(Raise("BotoCoreError"), 1, 1, TRUE)
    ELSE IF env.fault = "write_oserror" THEN TtsOutcome(Raise("OSError"), 1, 1, TRUE)
    ELSE TtsOutcome(Return(Path("output", output_file)), 1, 1, TRUE)

\* except (BotoCoreError, ClientError): return None
tts_except(o) ==
    IF o.ret.raised /\ o.ret.exc \in {"BotoCoreError", "ClientError"}
    THEN [o EXCEPT !.ret = Return(NoneV)]
    ELSE o

text_to_speech(env, output_file) ==
    IF ~(Truthy(env.aws_key) /\ Truthy(env.aws_secret) /\ Truthy(env.aws_region))
    THEN TtsOutcome(Return(NoneV), 0, 0, FALSE)
    ELSE IF env.fault = "client_raises"
    THEN TtsOutcome(Raise("BotoCoreError"), 1, 0, FALSE)
    ELSE tts_except(tts_try(env, output_file))

(***************************************************************************)
(* SpecTts: text_to_speech under every credential setting and fault.       *)
(***************************************************************************)
InitTts ==
    /\ arg \in [env : TtsEnvs, output_file : OutputFiles]
    /\ ret = TtsOutcome(Return(NoneV), 0, 0, FALSE)
    /\ fpc = "ready"
    /\ AuthIdle
    /\ PipeIdle

CallTts ==
    /\ fpc = "ready"
    /\ ret' = text_to_speech(arg.env, arg.output_file)
    /\ fpc' = "returned"
    /\ UNCHANGED <<arg, authvars, pipevars>>

NextTts == CallTts

SpecTts == InitTts /\ [][NextTts]_vars

(***************************************************************************)
(* youtube_uploader.py                                                     *)
(***************************************************************************)
\* What goes wrong in get_authenticated_service:
\*   flow_raises   from_client_secrets_file or run_local_server raises
\*   dump_raises   pickle.dump raises after open(.., "wb") truncated the file
\*   build_raises  build(...) raises
AuthFaults == {"none", "flow_raises", "dump_raises", "build_raises"}

\* What goes wrong after authentication in upload_video:
\*   media_raises  MediaFileUpload raises (the video file cannot be read)
\*   refresh_error request.execute() raises RefreshError
\*   http_error    request.execute() raises another exception
\*   no_id         the response has no "id" key
UploadFaults == {"none", "media_raises", "refresh_error", "http_error", "no_id"}

UploadEnvs == [auth : AuthFaults, upload : UploadFaults]

\* pickle.load of the token file, with the except clause: the credential, or
\* None when the file is missing or unreadable.
load_token(file) == IF file.k = "cred" THEN Obj(file.cred) ELSE NoneV

\* The outcome of get_authenticated_service: the service (named by the
\* credential it uses) or an exception, the token file afterwards, and
\* whether the interactive login flow was started.
AuthOutcome(r, file, login) == [ret |-> r, file |-> file, login |-> login]

\* Mutant of login_and_cache: the new credential is not written to the token
\* file.
login_without_cache(file, fresh, fault) ==
    IF fault = "flow_raises" THEN AuthOutcome(Raise("Exception"), file, TRUE)
    ELSE AuthOutcome(Return(Obj(fresh)), file, TRUE)

\* The "if not creds" block: the login flow, then the new credential is
\* written to the token file.
login_and_cache(file, fresh, fault) ==
    IF fault = "flow_raises" THEN AuthOutcome(Raise("Exception"), file, TRUE)
    ELSE IF fault = "dump_raises" THEN AuthOutcome(Raise("Exception"), TokenCorrupt, TRUE)
    ELSE AuthOutcome(Return(Obj(fresh)), TokenCred(fresh), TRUE)

\* fresh is the credential an interactive login would hand out.
get_authenticated_service(file, fresh, fault) ==
    LET creds == load_token(file)
        got == IF Truthy(creds)
               THEN AuthOutcome(Return(creds), file, FALSE)
               ELSE login_and_cache(file, fresh, fault)
    IN IF got.ret.raised THEN got
       ELSE IF fault = "build_raises" THEN [got EXCEPT !.ret = Raise("Exception")]
       ELSE got

\* The outcome of upload_video: what it returned or raised, the token file
\* afterwards, the calls of get_authenticated_service and of
\* request.execute() it made, and what get_authenticated_service did.
UploadOutcome(r, a, auths, execs) ==
    [ret |-> r, file |-> a.file, auths |-> auths, execs |-> execs, auth |-> a]

VideoId == Str("video-id")

\* The body of the try block of upload_video.
upload_try(file, fresh, env) ==
    LET a == get_authenticated_service(file, fresh, env.auth)
    IN IF a.ret.raised THEN UploadOutcome(a.ret, a, 1, 0)
       ELSE IF env.upload = "media_raises" THEN UploadOutcome(Raise("Exception"), a, 1, 0)
       ELSE IF env.upload = "refresh_error" THEN UploadOutcome(Raise("RefreshError"), a, 1, 1)
       ELSE IF env.upload = "http_error" THEN UploadOutcome(Raise("Exception"), a, 1, 1)
       ELSE IF env.upload = "no_id" THEN UploadOutcome(Raise("Exception"), a, 1, 1)
       ELSE UploadOutcome(Return(VideoId), a, 1, 1)

\* Mutant of upload_video: only RefreshError is caught.
upload_video_refresh_only(file, fresh, env) ==
    LET o == upload_try(file, fresh, env)
    IN IF o.ret.raised /\ o.ret.exc = "RefreshError"
       THEN [o EXCEPT !.ret = Return(NoneV)]
       ELSE o

\* except RefreshError: return None / except Exception: return None
upload_video(file, fresh, env) ==
    LET o == upload_try(file, fresh, env)
    IN IF o.ret.raised /\ o.ret.exc \in {"RefreshError", "Exception"}
       THEN [o EXCEPT !.ret = Return(NoneV)]
       ELSE o

(***************************************************************************)
(* SpecUpload: successive invocations of upload_video, one per run of the  *)
(* program, that share the token file; between two of them the operator    *)
(* may delete the token file, as the message of upload_video asks.         *)
(***************************************************************************)
InitialTokens == {TokenMissing, TokenCorrupt, TokenCred(0)}

NoUpload ==
    UploadOutcome(Return(NoneV), AuthOutcome(Return(NoneV), TokenMissing, FALSE), 0, 0)

InitUpload ==
    /\ tokenFile \in InitialTokens
    /\ ncalls = 0
    /\ arg = [env |-> [auth |-> "none", upload |-> "none"], before |-> tokenFile,
              fresh |-> 0]
    /\ ret = NoUpload
    /\ fpc = "ready"
    /\ PipeIdle

CallUpload ==
    /\ ncalls < MaxUploads
    /\ \E env \in UploadEnvs :
         LET fresh == ncalls + 1
             o == upload_video(tokenFile, fresh, env)
         IN /\ arg' = [env |-> env, before |-> tokenFile, fresh |-> fresh]
            /\ ret' = o
            /\ tokenFile' = o.file
    /\ ncalls' = ncalls + 1
    /\ fpc' = "returned"
    /\ UNCHANGED pipevars

DeleteToken ==
    /\ fpc = "returned"
    /\ tokenFile # TokenMissing
    /\ tokenFile' = TokenMissing
    /\ fpc' = "ready"
    /\ UNCHANGED <<arg, ret, ncalls, pipevars>>

NextUpload == CallUpload \/ DeleteToken

SpecUpload == InitUpload /\ [][NextUpload]_vars

(***************************************************************************)
(* video_maker.py                                                          *)
(***************************************************************************)
\* What yf.download does in create_chart: a series, an empty series, or an
\* exception.
ChartEnvs == {"ok", "empty", "download_raises"}

create_chart(ticker, filename, env) ==
    IF env = "download_raises" THEN Raise("Exception")
    ELSE IF env = "empty" THEN Raise("ValueError")
    ELSE Return(Path("assets", filename))

\* What the rendering does in create_video: it succeeds or raises.
VideoEnvs == {"ok", "render_raises"}

DEFAULT_DURATION == 30
TITLE_DURATION == 5

Min(a, b) == IF a <= b THEN a ELSE b
Max(a, b) == IF a >= b THEN a ELSE b

\* duration = min(audio.duration, DEFAULT_DURATION)
clip_duration(audio_duration) == Min(audio_duration, DEFAULT_DURATION)

\* The duration (seconds) each clip of the composition is given.
compose(audio_duration) ==
    [background      |-> clip_duration(audio_duration),
     title           |-> TITLE_DURATION,
     disclaimer_bg   |-> clip_duration(audio_duration),
     disclaimer_text |-> clip_duration(audio_duration)]

\* CompositeVideoClip lasts until the last of its clips ends.
composite_duration(layers) ==
    Max(Max(layers.background, layers.title),
        Max(layers.disclaimer_bg, layers.disclaimer_text))

\* AudioFileClip(None) raises; any rendering error propagates.
create_video(chart_path, audio_path, output_name, env) ==
    IF audio_path = NoneV THEN Raise("TypeError")
    ELSE IF env = "render_raises" THEN Raise("Exception")
    ELSE Return(Path("output", output_name))

(***************************************************************************)
(* runner.py                                                               *)
(***************************************************************************)
Clocks == [wd : 0..6, hour : 0..23]

\* The wall clock one hour later.
NextHour(c) ==
    IF c.hour = 23 THEN [wd |-> (c.wd + 1) % 7, hour |-> 0]
    ELSE [wd |-> c.wd, hour |-> c.hour + 1]

\* What now_ist() may return after a read that returned c: the same hour, or
\* the next one when the hour has turned in between.
now_ist(c) == {c, NextHour(c)}

SATURDAY == 5
SUNDAY == 6
NOON == 12

\* is_sunday(), given what its now_ist() returned.
is_sunday(c) == c.wd = SUNDAY

\* current_hour(), given what its now_ist() returned.
current_hour(c) == c.hour

\* Mutant of weekday_report: noon still counts as morning.
weekday_report_noon_premarket(hour) ==
    IF hour <= NOON THEN "premarket" ELSE "postmarket"

\* The last branch of main: premarket before noon, postmarket otherwise.
weekday_report(hour) ==
    IF hour < NOON THEN "premarket" ELSE "postmarket"

SilentDuration == 30

\* Durations (seconds) of a synthesized speech track.
SpeechDurations == {3, 45}

AudioFile(path, kind, duration) ==
    [path |-> path, kind |-> kind, duration |-> duration]

\* What safe_audio did: what it returned or raised, what text_to_speech
\* returned or raised, and the audio track at the path it returned (None when
\* it raised and returned no path).
AudioOutcome(r, tts, file) == [ret |-> r, tts |-> tts, file |-> file]

\* How long (whole seconds) the file written by
\* AudioClip(lambda t: 0, duration=30).write_audiofile(path, fps=44100)
\* lasts. The clip is declared 30 s long, but its frame function returns the
\* scalar 0 for a whole block of sample times and not one sample per time, so
\* what the writer puts in the file depends on the library: the declared
\* 30 s, or one sample per block, which is less than a second.
SilentWritten == {0, SilentDuration}

\* speech is the duration of the track the provider synthesizes; silent_ok
\* tells whether writing the silent track succeeds (os.makedirs and
\* write_audiofile are not in a try block) and silent how long the written
\* track lasts.
safe_audio(env, filename, speech, silent_ok, silent) ==
    LET t == text_to_speech(env, filename)
    IN IF t.ret.raised THEN AudioOutcome(t.ret, t.ret, NoneV)
       ELSE IF Truthy(t.ret.value)
       THEN AudioOutcome(t.ret, t.ret, AudioFile(t.ret.value, "speech", speech))
       ELSE IF ~silent_ok THEN AudioOutcome(Raise("OSError"), t.ret, NoneV)
       ELSE AudioOutcome(Return(Path("output", filename)), t.ret,
                         AudioFile(Path("output", filename), "silent", silent))

\* The file names each report runner uses.
AudioName(kind) ==
    IF kind = "premarket" THEN "premarket.mp3"
    ELSE IF kind = "postmarket" THEN "postmarket.mp3" ELSE "weekly.mp3"

ChartName(kind) ==
    IF kind = "premarket" THEN "nifty_premarket.png"
    ELSE IF kind = "postmarket" THEN "nifty_postmarket.png" ELSE "nifty_weekly.png"

VideoName(kind) ==
    IF kind = "premarket" THEN "premarket.mp4"
    ELSE IF kind = "postmarket" THEN "postmarket.mp4" ELSE "weekly.mp4"

\* The provider answers and the generative-service answers the runs are
\* checked with: a subset of those of SpecFetch and SpecScript.
RunProviders ==
    { [fault |-> "raises", hist |-> NoHist],
      [fault |-> "ok", hist |-> Frame(<<Num(22380), Num(22500)>>)] }

RunGens == {GenRaises, GenContent(Text(<<>>))}

\* The speech environments the runs are checked with: the credentials set
\* with each fault, and the region missing.
RunTtsEnvs ==
    {e \in TtsEnvs : /\ e.aws_key = Str("set")
                     /\ e.aws_secret = Str("set")
                     /\ \/ e.aws_region = Str("set")
                        \/ e.aws_region = NoneV /\ e.fault = "none"}

Kind == started[Len(started)]

\* main, line 199: now = now_ist(); Saturday returns at once.
MainNow ==
    /\ pc = "start"
    /\ reads' = Append(reads, clock)
    /\ pc' = IF clock.wd = SATURDAY THEN "exit0" ELSE "is_sunday"
    /\ UNCHANGED <<clock, started, calls, locals, fnvars, authvars>>

\* main, line 208: if is_sunday(): run_weekly().
MainIsSunday ==
    /\ pc = "is_sunday"
    /\ \E c \in now_ist(clock) :
         /\ clock' = c
         /\ reads' = Append(reads, c)
         /\ IF is_sunday(c)
            THEN started' = Append(started, "weekly") /\ pc' = "fetch"
            ELSE started' = started /\ pc' = "current_hour"
    /\ UNCHANGED <<calls, locals, fnvars, authvars>>

\* main, line 213: if current_hour() < 12: run_premarket() else run_postmarket().
MainCurrentHour ==
    /\ pc = "current_hour"
    /\ \E c \in now_ist(clock) :
         /\ clock' = c
         /\ reads' = Append(reads, c)
         /\ started' = Append(started, weekday_report(current_hour(c)))
    /\ pc' = "fetch"
    /\ UNCHANGED <<calls, locals, fnvars, authvars>>

\* run_*: nifty = fetch_index_daily("^NSEI")
Fetch ==
    /\ pc = "fetch"
    /\ \E p \in RunProviders :
         nifty' = fetch_index_daily("^NSEI", p.fault, p.hist).value
    /\ calls' = Append(calls, "fetch_index_daily")
    /\ pc' = "script"
    /\ UNCHANGED <<clock, reads, started, script, audio, chart, video, uploaded,
                   fnvars, authvars>>

\* run_*: script = create_*_script(...)
Script ==
    /\ pc = "script"
    /\ \E client \in BOOLEAN, gen \in RunGens :
         script' = create_script([kind |-> Kind, nifty |-> nifty,
                                  sectors |-> IF Kind = "weekly" THEN WeeklySectors
                                              ELSE PostmarketSectors,
                                  client |-> client, gen |-> gen])
    /\ calls' = Append(calls, "create_script")
    /\ pc' = "audio"
    /\ UNCHANGED <<clock, reads, started, nifty, audio, chart, video, uploaded,
                   fnvars, authvars>>

\* run_*: audio = safe_audio(script, "<kind>.mp3"); an exception ends the run.
Audio ==
    /\ pc = "audio"
    /\ \E env \in RunTtsEnvs, d \in SpeechDurations, ok \in BOOLEAN,
          sd \in SilentWritten :
         audio' = safe_audio(env, AudioName(Kind), d, ok, sd)
    /\ calls' = Append(calls, "safe_audio")
    /\ pc' = IF audio'.ret.raised THEN "crashed" ELSE "chart"
    /\ UNCHANGED <<clock, reads, started, nifty, script, chart, video, uploaded,
                   fnvars, authvars>>

\* run_*: chart = create_chart("^NSEI", "nifty_<kind>.png")
Chart ==
    /\ pc = "chart"
    /\ \E env \in ChartEnvs :
         chart' = create_chart("^NSEI", ChartName(Kind), env)
    /\ calls' = Append(calls, "create_chart")
    /\ pc' = IF chart'.raised THEN "crashed" ELSE "video"
    /\ UNCHANGED <<clock, reads, started, nifty, script, audio, video, uploaded,
                   fnvars, authvars>>

\* run_*: video = create_video(chart_path=chart, audio_path=audio, ...)
Video ==
    /\ pc = "video"
    /\ \E env \in VideoEnvs :
         LET r == create_video(chart.value, audio.ret.value, VideoName(Kind), env)
             layers == compose(audio.file.duration)
         IN video' = [chart_path |-> chart.value, audio_path |-> audio.ret.value,
                      ret |-> r,
                      layers |-> IF r.raised THEN NoneV ELSE layers,
                      duration |-> IF r.raised THEN NoneV
                                   ELSE Num(composite_duration(layers))]
    /\ calls' = Append(calls, "create_video")
    /\ pc' = IF video'.ret.raised THEN "crashed" ELSE "upload"
    /\ UNCHANGED <<clock, reads, started, nifty, script, audio, chart, uploaded,
                   fnvars, authvars>>

\* run_*: upload_video(file_path=video, ...); then run_* and main return.
Upload ==
    /\ pc = "upload"
    /\ \E env \in UploadEnvs :
         LET o == upload_video(tokenFile, ncalls + 1, env)
         IN /\ uploaded' = o.ret
            /\ tokenFile' = o.file
    /\ ncalls' = ncalls + 1
    /\ calls' = Append(calls, "upload_video")
    /\ pc' = IF uploaded'.raised THEN "crashed" ELSE "exit0"
    /\ UNCHANGED <<clock, reads, started, nifty, script, audio, chart, video, fnvars>>

(***************************************************************************)
(* Spec: one run of main, started at any hour of the week with the token   *)
(* file in any state.                                                      *)
(***************************************************************************)
FnIdle ==
    /\ arg = NoneV
    /\ ret = NoneV
    /\ fpc = "idle"

Init ==
    /\ pc = "start"
    /\ clock \in Clocks
    /\ reads = <<>>
    /\ started = <<>>
    /\ calls = <<>>
    /\ NoLocals
    /\ tokenFile \in InitialTokens
    /\ ncalls = 0
    /\ FnIdle

Next ==
    \/ MainNow
    \/ MainIsSunday
    \/ MainCurrentHour
    \/ Fetch
    \/ Script
    \/ Audio
    \/ Chart
    \/ Video
    \/ Upload

Spec == Init /\ [][Next]_vars

(***************************************************************************)
(* Claims                                                                  *)
(***************************************************************************)
\* The report the scheduling rule assigns to a clock value.
RuleOutcome(c) ==
    IF c.wd = 5 THEN <<>>
    ELSE IF c.wd = 6 THEN <<"weekly">>
    ELSE IF c.hour < 12 THEN <<"premarket">>
    ELSE <<"postmarket">>

Selecting == pc \in {"start", "is_sunday", "current_hour"}

StableReads == \A i \in 1..Len(reads) : reads[i] = reads[1]

\* C1: main maps the observed (weekday, hour) to exactly one outcome:
\* Saturday starts no report, calls no collaborator and returns; Sunday
\* starts only the weekly report; Monday to Friday starts only the premarket
\* report when hour < 12 and only the postmarket report when hour >= 12; the
\* selection never raises. Each decision follows the clock value its own read
\* observed, and with one observed value the outcome is the rule's.
C1_SchedulerTotal ==
    ~Selecting =>
        /\ Len(started) <= 1
        /\ Len(reads) >= 1
        /\ reads[1].wd = 5 =>
              /\ started = <<>>
              /\ calls = <<>>
              /\ pc = "exit0"
        /\ reads[1].wd # 5 =>
              /\ Len(reads) >= 2
              /\ reads[2].wd = 6 => started = <<"weekly">>
              /\ reads[2].wd # 6 =>
                    /\ Len(reads) = 3
                    /\ reads[3].hour < 12 => started = <<"premarket">>
                    /\ reads[3].hour >= 12 => started = <<"postmarket">>
        /\ StableReads => started = RuleOutcome(reads[1])
        /\ started = <<>> => calls = <<>>
        /\ pc = "crashed" => calls # <<>>

\* C1 witness: a run begun on Monday at 12 that read the same clock value
\* three times ran the postmarket report to its end.
C1_Witness ==
    /\ pc = "exit0"
    /\ reads = <<[wd |-> 0, hour |-> 12], [wd |-> 0, hour |-> 12], [wd |-> 0, hour |-> 12]>>
    /\ started = <<"postmarket">>
    /\ Len(calls) = 6

Contains(text, piece) ==
    \E i \in 1..(Len(text) - Len(piece) + 1) :
        SubSeq(text, i, i + Len(piece) - 1) = piece

\* C2: every script a composer returns is non-empty and contains the
\* disclaimer sentence, whether the generative client is missing, its call
\* raises, or it answers with any content.
C2_ScriptNonEmptyWithDisclaimer ==
    fpc = "returned" => (Len(ret) > 0 /\ Contains(ret, SEBI_DISCLAIMER))

\* The rows fetch_index_daily converts: the last one and, when there are two
\* or more, the one before it.
UsedRows(rows) == {Len(rows)} \cup (IF Len(rows) >= 2 THEN {Len(rows) - 1} ELSE {})

FetchFails(a) ==
    \/ a.fault # "ok"
    \/ a.hist = NoHist
    \/ Len(a.hist.rows) = 0
    \/ \E i \in UsedRows(a.hist.rows) : a.hist.rows[i] = BadCell

\* C3: fetch_index_daily never raises; with no history, or with an exception
\* in the call or in the conversion of the rows, it returns the ticker with
\* close and prev_close None and a non-empty error text; a successful result
\* has no error field.
C3_FetchNeverRaises ==
    fpc = "returned" =>
        /\ ~ret.raised
        /\ ret.value.symbol = Str(arg.ticker)
        /\ FetchFails(arg) =>
              /\ ret.value.close = NoneV
              /\ ret.value.prev_close = NoneV
              /\ "error" \in DOMAIN ret.value
              /\ NonEmptyMsg(ret.value.error)
        /\ ~FetchFails(arg) => "error" \notin DOMAIN ret.value

\* C3 witness: the conversion of the second-to-last row raised and an error
\* quote came back.
C3_Witness ==
    /\ fpc = "returned"
    /\ arg.fault = "ok"
    /\ arg.hist # NoHist
    /\ Len(arg.hist.rows) = 2
    /\ arg.hist.rows[1] = BadCell
    /\ arg.hist.rows[2] = Num(22500)
    /\ ~ret.raised
    /\ "error" \in DOMAIN ret.value

NumericHistory(a) ==
    /\ a.fault = "ok"
    /\ a.hist # NoHist
    /\ Len(a.hist.rows) >= 1
    /\ \A i \in UsedRows(a.hist.rows) : IsNum(a.hist.rows[i])

\* C4: for a history of n >= 1 rows with numeric closes, close is the Close of
\* the last row and prev_close the Close of the second-to-last row when
\* n >= 2; when n = 1, prev_close equals close and the percentage change of
\* the quote is 0.
C4_LastAndPreviousClose ==
    (fpc = "returned" /\ NumericHistory(arg)) =>
        LET rows == arg.hist.rows
            n == Len(rows)
            q == ret.value
        IN /\ q.close = rows[n]
           /\ n >= 2 => q.prev_close = rows[n - 1]
           /\ n = 1 => /\ q.prev_close = q.close
                        /\ PctChange(q.close, q.prev_close) = Return(0)

\* C4 witness: a one-row history came back with prev_close equal to close.
C4_Witness ==
    /\ fpc = "returned"
    /\ NumericHistory(arg)
    /\ Len(arg.hist.rows) = 1
    /\ arg.hist.rows[1] = Num(22500)
    /\ ret.value.prev_close = Num(22500)

UsesFallback(a) ==
    \/ ~a.client
    \/ a.gen = GenRaises
    \/ a.gen = GenContent(NoText)

\* C5: for a quote with numeric close and non-zero numeric prev_close, the
\* fallback premarket or postmarket script holds the summary sentence with
\* the close and the percentage change (close - prev_close) / prev_close * 100
\* rounded to 2 decimals.
C5_SummaryStatesCloseAndChange ==
    ( /\ fpc = "returned"
      /\ arg.kind \in {"premarket", "postmarket"}
      /\ UsesFallback(arg)
      /\ IsNum(arg.nifty.close)
      /\ IsNum(arg.nifty.prev_close)
      /\ arg.nifty.prev_close.v # 0 ) =>
        \E i \in 1..Len(ret) :
            /\ ret[i].tok = "idx"
            /\ ret[i].close = 100 * arg.nifty.close.v
            /\ ret[i].pct = Pct2f(arg.nifty.close.v, arg.nifty.prev_close.v)

PrevZeroOrNone(d) ==
    "prev_close" \in DOMAIN d /\ d.prev_close \in {NoneV, Num(0)}

\* C6: _idx_summary never raises, whatever fields of the quote are missing,
\* None or zero; when prev_close is zero or None the percentage change it
\* prints is 0, and no division error replaces the sentence.
C6_IdxSummaryNeverRaises ==
    fpc = "returned" =>
        /\ ~ret.raised
        /\ ret.value.tok \in {"idx", "lit"}
        /\ (PrevZeroOrNone(arg) /\ ret.value.tok = "idx") => ret.value.pct = 0
        /\ ( /\ PrevZeroOrNone(arg)
              /\ \A f \in {"close", "high", "low"} : f \in DOMAIN arg /\ IsNum(arg[f]) )
              => ret.value.tok = "idx"

\* C6 witness: the sentence was printed for a quote whose prev_close is 0.
C6_Witness ==
    /\ fpc = "returned"
    /\ "prev_close" \in DOMAIN arg
    /\ arg.prev_close = Num(0)
    /\ ~ret.raised
    /\ ret.value.tok = "idx"
    /\ ret.value.pct = 0

\* C7: whenever text_to_speech returns None, safe_audio writes a silent
\* track of 30 seconds to output/<filename> and returns that path; so every
\* return of safe_audio is a path, and create_video is never called with
\* None as its audio path.
C7_AudioNeverAbsent ==
    /\ (audio # NoneV /\ audio.tts = Return(NoneV)) =>
          /\ ~audio.ret.raised
          /\ audio.ret.value = Path("output", AudioName(Kind))
          /\ audio.file = AudioFile(Path("output", AudioName(Kind)), "silent", 30)
    /\ (audio # NoneV /\ ~audio.ret.raised) =>
          /\ audio.ret.value = Path("output", AudioName(Kind))
          /\ audio.file # NoneV
          /\ audio.file.path = audio.ret.value
    /\ video # NoneV =>
          /\ video.audio_path # NoneV
          /\ video.audio_path = audio.ret.value

\* Whenever safe_audio returns, it returns the path of the track it uses, and
\* create_video is called with that path.
AudioPathPresent ==
    /\ (audio # NoneV /\ ~audio.ret.raised) =>
          /\ audio.ret.value = Path("output", AudioName(Kind))
          /\ audio.file # NoneV
          /\ audio.file.path = audio.ret.value
    /\ video # NoneV =>
          /\ video.audio_path # NoneV
          /\ video.audio_path = audio.ret.value

CredentialsMissing(env) ==
    \E v \in {env.aws_key, env.aws_secret, env.aws_region} : v \in {NoneV, Str("")}

\* C8: text_to_speech never raises; with a credential missing it returns None
\* without creating a provider client or sending a request; with the
\* credentials present, any exception in creating the client, calling the
\* provider or writing the file is swallowed and None is returned.
C8_TtsNeverRaises ==
    fpc = "returned" =>
        /\ ~ret.ret.raised
        /\ CredentialsMissing(arg.env) =>
              /\ ret.ret.value = NoneV
              /\ ret.clients = 0
              /\ ret.requests = 0
        /\ (~CredentialsMissing(arg.env) /\ arg.env.fault # "none") =>
              ret.ret.value = NoneV

UploadFails(a) ==
    \/ a.env.upload # "none"
    \/ a.env.auth = "build_raises"
    \/ a.before.k # "cred" /\ a.env.auth # "none"

\* C9: upload_video never raises and makes one attempt: at most one
\* authentication and one execution of the request per invocation; it returns
\* the video id on success and None on a token-refresh failure or any other
\* exception.
C9_UploadSingleAttemptNeverRaises ==
    fpc = "returned" =>
        /\ ~ret.ret.raised
        /\ ret.auths <= 1
        /\ ret.execs <= 1
        /\ UploadFails(arg) => ret.ret.value = NoneV
        /\ ~UploadFails(arg) => (ret.ret.value = VideoId /\ ret.execs = 1)

\* C9 witness: the request raised RefreshError and None came back after one
\* execution.
C9_Witness ==
    /\ fpc = "returned"
    /\ arg.env.upload = "refresh_error"
    /\ ret.execs = 1
    /\ ~ret.ret.raised
    /\ ret.ret.value = NoneV

\* C10: the interactive login runs exactly when the token file is missing or
\* unreadable; a readable token is reused without login and the file stays
\* as it was; after a login the file holds the new credential. So whenever
\* get_authenticated_service returns, the token file holds the credential of
\* the returned service, and a missing or unreadable token has been replaced.
C10_TokenLifecycle ==
    fpc = "returned" =>
        LET a == ret.auth
        IN /\ a.login <=> arg.before.k # "cred"
           /\ arg.before.k = "cred" => tokenFile = arg.before
           /\ ~a.ret.raised =>
                 /\ tokenFile = TokenCred(a.ret.value.id)
                 /\ a.login => tokenFile = TokenCred(arg.fresh)

\* C10 witness: a second invocation reuses, without login, the credential the
\* first one obtained by login and wrote to the missing token file.
C10_Witness ==
    /\ fpc = "returned"
    /\ ncalls = 2
    /\ arg.before = TokenCred(1)
    /\ ~ret.auth.login
    /\ ~ret.auth.ret.raised
    /\ ret.auth.ret.value = Obj(1)
    /\ tokenFile = TokenCred(1)

\* The stages of a report run, in the order the runners call them.
Stages ==
    <<"fetch_index_daily", "create_script", "safe_audio", "create_chart",
      "create_video", "upload_video">>

\* The calls made so far are the first stages, in order, each once; a stage
\* is called only in a started report; upload_video is called only after
\* create_chart and create_video returned paths.
StageOrder ==
    /\ Len(calls) <= Len(Stages)
    /\ calls = SubSeq(Stages, 1, Len(calls))
    /\ calls # <<>> => Len(started) = 1
    /\ Len(calls) >= 4 => chart # NoneV
    /\ Len(calls) >= 5 => video # NoneV /\ ~chart.raised
    /\ Len(calls) = 6 =>
          /\ ~video.ret.raised
          /\ video.ret.value = Path("output", VideoName(Kind))
    /\ (chart # NoneV /\ chart.raised) => pc = "crashed" /\ Len(calls) = 4
    /\ (video # NoneV /\ video.ret.raised) => pc = "crashed" /\ Len(calls) = 5

\* C11: within one report run the stages execute in the order fetch, script,
\* audio, chart, video, upload, each at most once and each after the previous
\* one completed; failures of fetch, script generation and speech synthesis
\* do not stop the run, so a run ends early only on an exception of
\* create_chart or create_video; upload_video is called only after
\* create_video returned a video path and never after create_chart or
\* create_video raised.
C11_StagesInOrder ==
    /\ StageOrder
    /\ pc = "crashed" =>
          \/ Len(calls) = 4 /\ chart.raised
          \/ Len(calls) = 5 /\ video.ret.raised

\* C12: the report main runs is the one the scheduling rule assigns to the
\* first clock observation, also when the wall clock advances between the
\* reads of main; no report is started when a clock read used for a decision
\* shows Saturday, and a run begun on Sunday runs the weekly report.
C12_OutcomeOfFirstObservation ==
    ~Selecting =>
        /\ started = RuleOutcome(reads[1])
        /\ (\E i \in 1..Len(reads) : reads[i].wd = SATURDAY) => started = <<>>
        /\ reads[1].wd = SUNDAY => started = <<"weekly">>

\* C13: in create_video every layer of the composition (background, title,
\* disclaimer bar, disclaimer text) lasts at most d = min(audio duration,
\* 30 s), for every audio duration, also one below 5 s; so the composed video
\* does not outlast d.
C13_LayersWithinAudio ==
    (video # NoneV /\ ~video.ret.raised) =>
        LET d == Min(audio.file.duration, 30)
        IN /\ video.layers.background <= d
           /\ video.layers.title <= d
           /\ video.layers.disclaimer_bg <= d
           /\ video.layers.disclaimer_text <= d
           /\ video.duration.v <= d

====
